---- MODULE Spec2Model ----
(***************************************************************************)
(* Model of manim/utils/tex_file_writing.py: the pipeline that renders a   *)
(* TeX expression into a .tex document, compiles it with an external       *)
(* compiler and converts the result to SVG with an external converter,     *)
(* caching every artifact on disk under a content fingerprint.             *)
(*                                                                         *)
(* Strings are sequences of atoms (an atom is a run of characters that     *)
(* the code never splits), so concatenation is \o, s[1:] is Tail(s) and    *)
(* str.replace is sub-sequence replacement.  A path is such a string.      *)
(* Log indices are 0-based as in the source; log[i] is written At(log, i). *)
(***************************************************************************)
EXTENDS Integers, Sequences, FiniteSets, TLC

\* ------------------------------------------------------------------ bounds
MaxCalls == 2       \* calls of tex_to_svg_file one behaviour makes
MaxLogLen == 13     \* lines of a compilation log (scan specification)
MaxMarks == 3       \* lines of a log that start with "!" or "l."

\* ------------------------------------------------------- program constants
ScanRange == 10     \* range(10) of the search for an "l." line
FirstPrinted == 1   \* printed_lines = 1

\* ------------------------------------------------------------------ strings
Range(s) == {s[i] : i \in 1..Len(s)}

\* s.startswith(p)
StartsWith(s, p) ==
    /\ Len(s) >= Len(p)
    /\ SubSeq(s, 1, Len(p)) = p

RECURSIVE Replace(_, _, _)
\* s.replace(old, new): every non-overlapping occurrence, left to right
Replace(s, old, new) ==
    IF s = <<>> THEN <<>>
    ELSE IF StartsWith(s, old)
         THEN new \o Replace(SubSeq(s, Len(old) + 1, Len(s)), old, new)
         ELSE <<s[1]>> \o Replace(Tail(s), old, new)

RECURSIVE Join(_, _)
\* sep.join(parts)
Join(sep, parts) ==
    IF parts = <<>> THEN <<>>
    ELSE IF Len(parts) = 1 THEN parts[1]
    ELSE parts[1] \o sep \o Join(sep, Tail(parts))

\* os.path.join(a, b) for a relative b and a directory a without trailing "/"
PathJoin(a, b) == a \o <<"/">> \o b

RECURSIVE as_posix(_)
\* Path(p).as_posix(): the path with repeated separators collapsed
as_posix(p) ==
    IF Len(p) < 2 THEN p
    ELSE IF p[1] = "/" /\ p[2] = "/" THEN as_posix(Tail(p))
    ELSE <<p[1]>> \o as_posix(Tail(p))

\* the extensions, as strings
Ext(name) == <<".", name>>
TexExt == Ext("tex")
LogExt == Ext("log")
SvgExt == Ext("svg")

\* ------------------------------------------------------------- tex_hash
\* two texts whose sha256 digests agree in their first 16 hex digits. The
\* kept prefix has 16^16 values and texts are unbounded, so such texts exist;
\* these two stand for them.
CollidingTexts == {
    <<"A", "\\begin{document}", "p", "\\end{document}">>,
    <<"A", "\\begin{document}", "q", "\\end{document}">> }

\* sha256(str(expression)).hexdigest()[:16]: one atom, a function of the text
\* alone. The full digest tells texts apart; the truncation to 16 digits
\* does not always.
tex_hash(expression) ==
    IF expression \in CollidingTexts THEN "c011idedc011ided"
    ELSE ToString(expression)

\* ------------------------------------------------------ command construction
Quoted(s) == <<"\"">> \o s \o <<"\"">>
DevNull == <<"/dev/null">>
LatexFamily == {<<"latex">>, <<"pdflatex">>, <<"luatex">>, <<"lualatex">>}

CmdOk(s) == [ok |-> TRUE, command |-> s, error |-> "none"]
CmdRaise(e) == [ok |-> FALSE, command |-> <<>>, error |-> e]

\* variant: xelatex built without looking at the output format
tex_compilation_command_noflag(tex_compiler, output_format, tex_file, tex_dir) ==
    IF tex_compiler \in LatexFamily
    THEN CmdOk(Join(<<" ">>, <<
            tex_compiler,
            <<"-interaction=batchmode">>,
            <<"-output-format=">> \o Quoted(Tail(output_format)),
            <<"-halt-on-error">>,
            <<"-output-directory=">> \o Quoted(tex_dir),
            Quoted(tex_file),
            <<">">>,
            DevNull >>))
    ELSE IF tex_compiler = <<"xelatex">>
    THEN CmdOk(Join(<<" ">>, <<
                <<"xelatex">>,
                <<>>,
                <<"-interaction=batchmode">>,
                <<"-halt-on-error">>,
                <<"-output-directory=">> \o Quoted(tex_dir),
                Quoted(tex_file),
                <<">">>,
                DevNull >>))
    ELSE CmdRaise("UnknownCompiler")

tex_compilation_command(tex_compiler, output_format, tex_file, tex_dir) ==
    IF tex_compiler \in LatexFamily
    THEN CmdOk(Join(<<" ">>, <<
            tex_compiler,
            <<"-interaction=batchmode">>,
            <<"-output-format=">> \o Quoted(Tail(output_format)),
            <<"-halt-on-error">>,
            <<"-output-directory=">> \o Quoted(tex_dir),
            Quoted(tex_file),
            <<">">>,
            DevNull >>))
    ELSE IF tex_compiler = <<"xelatex">>
    THEN IF output_format \notin {Ext("xdv"), Ext("pdf")}
         THEN CmdRaise("UnsupportedFormat")
         ELSE LET outflag == IF output_format = Ext("xdv")
                             THEN <<"-no-pdf">> ELSE <<>>
              IN  CmdOk(Join(<<" ">>, <<
                    <<"xelatex">>,
                    outflag,
                    <<"-interaction=batchmode">>,
                    <<"-halt-on-error">>,
                    <<"-output-directory=">> \o Quoted(tex_dir),
                    Quoted(tex_file),
                    <<">">>,
                    DevNull >>))
    ELSE CmdRaise("UnknownCompiler")

\* ------------------------------------------------------------ the log scan
At(log, i) == log[i + 1]

\* [ind for (ind, line) in enumerate(log) if line.startswith("!")], ascending
RECURSIVE ErrorPosFrom(_, _)
ErrorPosFrom(log, ind) ==
    IF ind >= Len(log) THEN <<>>
    ELSE IF StartsWith(At(log, ind), <<"!">>)
         THEN <<ind>> \o ErrorPosFrom(log, ind + 1)
         ELSE ErrorPosFrom(log, ind + 1)
log_error_pos(log) == ErrorPosFrom(log, 0)

\* The search loop "for _ in range(10)": the value of printed_lines when the
\* loop ends, or IndexError when log[lineno + printed_lines] is out of range.
RECURSIVE SearchLoop(_, _, _, _)
SearchLoop(log, lineno, printed_lines, iter) ==
    IF iter = ScanRange THEN [raised |-> FALSE, printed_lines |-> printed_lines]
    ELSE IF lineno + printed_lines >= Len(log)
         THEN [raised |-> TRUE, printed_lines |-> printed_lines]
    ELSE IF StartsWith(At(log, lineno + printed_lines), <<"l.">>)
         THEN [raised |-> FALSE, printed_lines |-> printed_lines]
    ELSE SearchLoop(log, lineno, printed_lines + 1, iter + 1)

Min(a, b) == IF a < b THEN a ELSE b

\* variant: the slice log[lineno : lineno + printed_lines]
SliceIndicesExclusive(log, lineno, printed_lines) ==
    LET stop == Min(lineno + printed_lines, Len(log))
    IN  [k \in 1..(stop - lineno) |-> lineno + k - 1]

\* the indices of log[lineno : lineno + printed_lines + 1]
SliceIndices(log, lineno, printed_lines) ==
    LET stop == Min(lineno + printed_lines + 1, Len(log))
    IN  [k \in 1..(stop - lineno) |-> lineno + k - 1]

\* One logger.error record: err is the "!" line the record was emitted for
\* and index the log line emitted (both -1 for the headline).
ErrorRecord(err, index, line) == [err |-> err, index |-> index, line |-> line]
Headline == ErrorRecord(-1, -1, <<"LaTeX compilation error!">>)

\* "for lineno in log_error_pos": the records emitted and whether the loop
\* ended in IndexError
RECURSIVE ReportFrom(_, _, _)
ReportFrom(log, positions, emitted) ==
    IF positions = <<>> THEN [raised |-> FALSE, emitted |-> emitted]
    ELSE LET lineno == positions[1]
             found == SearchLoop(log, lineno, FirstPrinted, 0)
             idx == SliceIndices(log, lineno, found.printed_lines)
         IN  IF found.raised
             THEN [raised |-> TRUE, emitted |-> emitted]
             ELSE ReportFrom(log, Tail(positions),
                    emitted \o [k \in 1..Len(idx) |->
                                  ErrorRecord(lineno, idx[k], At(log, idx[k]))])

\* lines 173-189: what reading the log emits
ScanLog(log) ==
    LET pos == log_error_pos(log)
    IN  IF pos = <<>> THEN [raised |-> FALSE, emitted |-> <<>>]
        ELSE ReportFrom(log, pos, <<Headline>>)

\* ------------------------------------------------------------ configuration
\* an optional argument: None, or a given value
None == [given |-> FALSE, value |-> <<>>]
Some(v) == [given |-> TRUE, value |-> v]

\* TexTemplate objects: the document body around the expression, the compiler
\* and the output format
Template(body, tex_compiler, output_format) ==
    [body |-> body, tex_compiler |-> tex_compiler, output_format |-> output_format]
Templates == {
    Template("A", <<"latex">>, Ext("dvi")),
    Template("A", <<"not-a-compiler">>, Ext("dvi")),
    Template("A", <<"xelatex">>, Ext("dvi")) }
\* config["tex_template"]
ConfigTexTemplate == Template("A", <<"latex">>, Ext("dvi"))

Expressions == { <<"x^2">> }
Environments == { None, Some(<<"align*">>) }
TemplateArgs == { None } \cup { Some(t) : t \in Templates }

\* config.get_dir("tex_dir"): a normalised directory path
WorkDirs == { <<"/", "w">>, <<"/", "w", ".", "tex">>, <<"/", "w", ".", "dvi">> }

\* TexTemplate.get_texcode_for_expression(expression)
get_texcode_for_expression(tpl, expression) ==
    <<tpl.body, "\\begin{document}">> \o expression \o <<"\\end{document}">>

\* TexTemplate.get_texcode_for_expression_in_env(expression, environment)
get_texcode_for_expression_in_env(tpl, expression, environment) ==
    <<tpl.body, "\\begin{document}", "\\begin{">> \o environment \o <<"}">>
        \o expression
        \o <<"\\end{">> \o environment \o <<"}", "\\end{document}">>

\* the logs the compiler of the pipeline may leave behind
ErrLine == <<"!", " Undefined control sequence.">>
LocLine == <<"l.", "7 \\foo">>
TextLine == <<"text">>
PipelineLogs == { <<>>, <<ErrLine, TextLine, LocLine>>, <<ErrLine, TextLine>> }

Callers == {1}

\* -------------------------------------------------------------------- state
VARIABLES
    tex_dir,       \* the configured working directory
    texDirExists,  \* whether that directory exists on disk
    fs,            \* the files on disk: path -> content
    call,          \* per caller: position and locals of its tex_to_svg_file call
    calls,         \* number of calls started
    returned,      \* the calls that returned: arguments and the path returned
    probe,         \* input of a pure function under test
    answer         \* its result

vars == <<tex_dir, texDirExists, fs, call, calls, returned, probe, answer>>

Exists(path) == path \in DOMAIN fs

\* what the compiler did when it ran: whether it wrote its output and the
\* log it wrote, if any
NoTool == [ran |-> FALSE, makes |-> FALSE, log |-> None]
Tool(makes, log) == [ran |-> TRUE, makes |-> makes, log |-> log]

\* how the previous call of a caller went
NoPrev == [ pc |-> "idle", expression |-> <<>>, environment |-> None,
            tex_template_arg |-> None, error |-> "none", exit_code |-> 0,
            tool |-> NoTool ]
Summary(me) == [ pc |-> me.pc, expression |-> me.expression,
                 environment |-> me.environment,
                 tex_template_arg |-> me.tex_template_arg, error |-> me.error,
                 exit_code |-> me.exit_code, tool |-> me.tool ]

Idle == [ pc |-> "idle", n |-> 0, prev |-> NoPrev, tool |-> NoTool,
          compiled_from |-> <<>>,
          expression |-> <<>>, environment |-> None, tex_template_arg |-> None,
          tex_template |-> ConfigTexTemplate,
          output |-> <<>>, tex_file |-> <<>>, dvi_file |-> <<>>, result |-> <<>>,
          command |-> <<>>, exit_code |-> 0, log_file |-> <<>>,
          convert_status |-> 0,
          retval |-> <<>>, error |-> "none",
          infos |-> <<>>, emitted |-> <<>>, trace |-> <<>>, fsEntry |-> <<>> ]

Init ==
    /\ tex_dir \in WorkDirs
    /\ texDirExists \in BOOLEAN
    /\ fs = <<>>
    /\ call = [c \in Callers |-> Idle]
    /\ calls = 0
    /\ returned = {}
    /\ probe = <<>>
    /\ answer = <<>>

\* number of occurrences of event e in the trace of caller c
RECURSIVE CountIn(_, _)
CountIn(s, e) ==
    IF s = <<>> THEN 0 ELSE (IF s[1] = e THEN 1 ELSE 0) + CountIn(Tail(s), e)
Count(c, e) == CountIn(call[c].trace, e)
CompilerRuns(c) == Count(c, "compiler_run")
ConverterRuns(c) == Count(c, "converter_run")
Writes(c) == Count(c, "open") + Count(c, "write")

\* ------------------------------------------------------ tex_to_svg_file
\* lines 24-43: a call starts; the template defaults to config["tex_template"]
Call(c, expression, environment, tex_template) ==
    /\ call[c].pc \in {"idle", "done", "failed"}
    /\ calls < MaxCalls
    /\ calls' = calls + 1
    /\ call' = [call EXCEPT ![c] = [Idle EXCEPT
            !.pc = "generate", !.n = calls + 1,
            !.expression = expression, !.environment = environment,
            !.tex_template_arg = tex_template,
            !.tex_template = IF tex_template.given THEN tex_template.value
                             ELSE ConfigTexTemplate,
            !.fsEntry = fs ]]
    /\ UNCHANGED <<tex_dir, texDirExists, fs, returned, probe, answer>>

\* the caller of a call that failed calls tex_to_svg_file again with the
\* same arguments
Recall(c) ==
    /\ call[c].pc = "failed"
    /\ calls < MaxCalls
    /\ calls' = calls + 1
    /\ call' = [call EXCEPT ![c] = [Idle EXCEPT
            !.pc = "generate", !.n = calls + 1, !.prev = Summary(call[c]),
            !.expression = call[c].expression,
            !.environment = call[c].environment,
            !.tex_template_arg = call[c].tex_template_arg,
            !.tex_template = call[c].tex_template,
            !.fsEntry = fs ]]
    /\ UNCHANGED <<tex_dir, texDirExists, fs, returned, probe, answer>>

\* ------------------------------------------------------ generate_tex_file
\* variant: the environment is tested for truth, so that the empty string
\* counts as absent
RenderIfTruthy(tpl, expression, environment) ==
    IF environment.given /\ environment.value # <<>>
    THEN get_texcode_for_expression_in_env(tpl, expression, environment.value)
    ELSE get_texcode_for_expression(tpl, expression)

\* lines 70-73
Render(tpl, expression, environment) ==
    IF environment.given
    THEN get_texcode_for_expression_in_env(tpl, expression, environment.value)
    ELSE get_texcode_for_expression(tpl, expression)

\* line 79
TexPath(dir, output) == PathJoin(dir, <<tex_hash(output)>>) \o TexExt

\* variant: the document is written without the existence check of line 80
GenerateNoCheck(c) ==
    LET me == call[c]
        output == Render(me.tex_template, me.expression, me.environment)
        result == TexPath(tex_dir, output)
    IN  /\ me.pc = "generate"
        /\ texDirExists' = TRUE
        /\ fs' = (result :> <<>>) @@ fs
        /\ call' = [call EXCEPT ![c] = [me EXCEPT
                        !.pc = "gen_write", !.output = output, !.result = result,
                        !.infos = Append(@, <<"Writing", me.expression, result>>),
                        !.trace = @ \o <<"generate", "open">> ]]
        /\ UNCHANGED <<tex_dir, calls, returned, probe, answer>>

\* variant: the document is written without the logger.info of line 81
GenerateNoInfo(c) ==
    LET me == call[c]
        output == Render(me.tex_template, me.expression, me.environment)
        result == TexPath(tex_dir, output)
    IN  /\ me.pc = "generate"
        /\ texDirExists' = TRUE
        /\ IF ~Exists(result)
           THEN /\ fs' = (result :> <<>>) @@ fs
                /\ call' = [call EXCEPT ![c] = [me EXCEPT
                        !.pc = "gen_write", !.output = output, !.result = result,
                        !.trace = @ \o <<"generate", "open">> ]]
           ELSE /\ fs' = fs
                /\ call' = [call EXCEPT ![c] = [me EXCEPT
                        !.pc = "compile", !.output = output, !.result = result,
                        !.tex_file = result,
                        !.trace = @ \o <<"generate", "generate_return">> ]]
        /\ UNCHANGED <<tex_dir, calls, returned, probe, answer>>

\* lines 68-82: render, make the directory, and either find the document on
\* disk and return its path, or log and open it for writing (which creates
\* it empty)
Generate(c) ==
    LET me == call[c]
        output == Render(me.tex_template, me.expression, me.environment)
        result == TexPath(tex_dir, output)
    IN  /\ me.pc = "generate"
        /\ texDirExists' = TRUE
        /\ IF ~Exists(result)
           THEN /\ fs' = (result :> <<>>) @@ fs
                /\ call' = [call EXCEPT ![c] = [me EXCEPT
                        !.pc = "gen_write", !.output = output, !.result = result,
                        !.infos = Append(@, <<"Writing", me.expression, result>>),
                        !.trace = @ \o <<"generate", "open">> ]]
           ELSE /\ fs' = fs
                /\ call' = [call EXCEPT ![c] = [me EXCEPT
                        !.pc = "compile", !.output = output, !.result = result,
                        !.tex_file = result,
                        !.trace = @ \o <<"generate", "generate_return">> ]]
        /\ UNCHANGED <<tex_dir, calls, returned, probe, answer>>

\* lines 83-84: write the text, close, return the path
GenWrite(c) ==
    LET me == call[c]
    IN  /\ me.pc = "gen_write"
        /\ fs' = (me.result :> me.output) @@ fs
        /\ call' = [call EXCEPT ![c] = [me EXCEPT
                        !.pc = "compile", !.tex_file = me.result,
                        !.trace = @ \o <<"write", "generate_return">> ]]
        /\ UNCHANGED <<tex_dir, texDirExists, calls, returned, probe, answer>>

\* ------------------------------------------------------------ compile_tex
\* lines 156-157: the path compile_tex expects the compiled output at
CompileResult(tex_file, output_format) ==
    as_posix(Replace(tex_file, TexExt, output_format))

\* line 166
LogFile(tex_file) == Replace(tex_file, TexExt, LogExt)

Raise(me, e, events) ==
    [me EXCEPT !.pc = "failed", !.error = e, !.trace = @ \o events]

\* variant: the command is built and run without the existence check of line 160
CompileEnterNoCheck(c) ==
    LET me == call[c]
        fmt == me.tex_template.output_format
        result == CompileResult(me.tex_file, fmt)
        tex_file == as_posix(me.tex_file)
        built == tex_compilation_command(
                    me.tex_template.tex_compiler, fmt, tex_file, as_posix(tex_dir))
        seen == IF Exists(result) THEN "compile_hit" ELSE "compile_miss"
    IN  /\ me.pc = "compile"
        /\ call' = [call EXCEPT ![c] =
                IF built.ok
                THEN [me EXCEPT !.pc = "compile_run", !.result = result,
                        !.tex_file = tex_file, !.command = built.command,
                        !.trace = @ \o <<"compile", seen>> ]
                ELSE Raise([me EXCEPT !.result = result, !.tex_file = tex_file],
                           built.error,
                           <<"compile", seen, "compile_raise">>)]
        /\ UNCHANGED <<tex_dir, texDirExists, fs, calls, returned, probe, answer>>

\* variant: the command is built, and its compiler and format validated,
\* before the expected output is looked for
CompileEnterValidateFirst(c) ==
    LET me == call[c]
        fmt == me.tex_template.output_format
        result == CompileResult(me.tex_file, fmt)
        tex_file == as_posix(me.tex_file)
        built == tex_compilation_command(
                    me.tex_template.tex_compiler, fmt, tex_file, as_posix(tex_dir))
        seen == IF Exists(result) THEN "compile_hit" ELSE "compile_miss"
    IN  /\ me.pc = "compile"
        /\ call' = [call EXCEPT ![c] =
                IF ~built.ok
                THEN Raise([me EXCEPT !.result = result, !.tex_file = tex_file],
                           built.error, <<"compile", seen, "compile_raise">>)
                ELSE IF Exists(result)
                THEN [me EXCEPT !.pc = "convert", !.result = result,
                        !.tex_file = tex_file, !.dvi_file = result,
                        !.trace = @ \o <<"compile", "compile_hit", "compile_return">> ]
                ELSE [me EXCEPT !.pc = "compile_run", !.result = result,
                        !.tex_file = tex_file, !.command = built.command,
                        !.trace = @ \o <<"compile", "compile_miss">> ]]
        /\ UNCHANGED <<tex_dir, texDirExists, fs, calls, returned, probe, answer>>

\* lines 156-163: the expected output exists and is returned, or the command
\* is built (which may raise)
CompileEnter(c) ==
    LET me == call[c]
        fmt == me.tex_template.output_format
        result == CompileResult(me.tex_file, fmt)
        tex_file == as_posix(me.tex_file)
        built == tex_compilation_command(
                    me.tex_template.tex_compiler, fmt, tex_file, as_posix(tex_dir))
    IN  /\ me.pc = "compile"
        /\ call' = [call EXCEPT ![c] =
                IF Exists(result)
                THEN [me EXCEPT !.pc = "convert", !.result = result,
                        !.tex_file = tex_file, !.dvi_file = result,
                        !.trace = @ \o <<"compile", "compile_hit", "compile_return">> ]
                ELSE IF built.ok
                THEN [me EXCEPT !.pc = "compile_run", !.result = result,
                        !.tex_file = tex_file, !.command = built.command,
                        !.trace = @ \o <<"compile", "compile_miss">> ]
                ELSE Raise([me EXCEPT !.result = result, !.tex_file = tex_file],
                           built.error,
                           <<"compile", "compile_miss", "compile_raise">>)]
        /\ UNCHANGED <<tex_dir, texDirExists, fs, calls, returned, probe, answer>>

\* the file name of a path without its directory and extension
Stem(path) == path[Len(path) - 2]

\* where the compiler, run with -output-directory=tex_dir on tex_file, puts
\* the file with extension ext
CompilerFile(dir, tex_file, ext) == PathJoin(dir, <<Stem(tex_file)>>) \o ext

Content(path) == IF Exists(path) THEN fs[path] ELSE <<>>

\* line 164, os.system(command): the compiler is an external program; it exits
\* with any status, having written its output or not and a log or not
CompilerRun(c) ==
    LET me == call[c]
        out == CompilerFile(as_posix(tex_dir), me.tex_file, me.tex_template.output_format)
        logf == CompilerFile(as_posix(tex_dir), me.tex_file, LogExt)
    IN  /\ me.pc = "compile_run"
        /\ \E exit_code \in {0, 1}, makes \in BOOLEAN, log \in {None} \cup {Some(l) : l \in PipelineLogs} :
            /\ fs' = (IF makes THEN out :> (<<"compiled">> \o Content(me.tex_file)) ELSE <<>>)
                     @@ (IF log.given THEN logf :> log.value ELSE <<>>)
                     @@ fs
            /\ call' = [call EXCEPT ![c] = [me EXCEPT
                        !.pc = "compile_exit", !.exit_code = exit_code,
                        !.tool = Tool(makes, log),
                        !.compiled_from = Content(me.tex_file),
                        !.trace = Append(@, "compiler_run") ]]
        /\ UNCHANGED <<tex_dir, texDirExists, calls, returned, probe, answer>>

\* variant: a failed compilation is recorded and the call goes on to convert
CompileExitSwallow(c) ==
    LET me == call[c]
        log_file == LogFile(me.tex_file)
    IN  /\ me.pc = "compile_exit"
        /\ call' = [call EXCEPT ![c] =
                IF me.exit_code = 0
                THEN [me EXCEPT !.pc = "convert", !.dvi_file = me.result,
                                !.trace = Append(@, "compile_return") ]
                ELSE [me EXCEPT !.pc = "convert", !.dvi_file = me.result,
                                !.log_file = log_file, !.error = "CompilationError",
                                !.trace = Append(@, "compile_raise") ]]
        /\ UNCHANGED <<tex_dir, texDirExists, fs, calls, returned, probe, answer>>

\* variant: a non-zero exit fails with CompilationError without looking for the log
CompileExitNoLogCheck(c) ==
    LET me == call[c]
        log_file == LogFile(me.tex_file)
    IN  /\ me.pc = "compile_exit"
        /\ call' = [call EXCEPT ![c] =
                IF me.exit_code = 0
                THEN [me EXCEPT !.pc = "convert", !.dvi_file = me.result,
                                !.trace = Append(@, "compile_return") ]
                ELSE Raise([me EXCEPT !.log_file = log_file], "CompilationError",
                           <<"compile_raise">>)]
        /\ UNCHANGED <<tex_dir, texDirExists, fs, calls, returned, probe, answer>>

\* variant: after a zero exit the expected output is looked for, and the call
\* fails when it is absent
CompileExitVerify(c) ==
    LET me == call[c]
        log_file == LogFile(me.tex_file)
        scan == ScanLog(fs[log_file])
    IN  /\ me.pc = "compile_exit"
        /\ call' = [call EXCEPT ![c] =
                IF me.exit_code = 0 /\ Exists(me.result)
                THEN [me EXCEPT !.pc = "convert", !.dvi_file = me.result,
                                !.trace = Append(@, "compile_return") ]
                ELSE IF me.exit_code = 0
                THEN Raise(me, "CompilationError", <<"compile_raise">>)
                ELSE IF ~Exists(log_file)
                THEN Raise([me EXCEPT !.log_file = log_file], "ToolchainMissing",
                           <<"compile_raise">>)
                ELSE Raise([me EXCEPT !.log_file = log_file, !.emitted = scan.emitted],
                           IF scan.raised THEN "IndexError" ELSE "CompilationError",
                           <<"read_log", "compile_raise">>)]
        /\ UNCHANGED <<tex_dir, texDirExists, fs, calls, returned, probe, answer>>

\* lines 165-196: status zero returns the expected path; otherwise the log is
\* looked up, read and scanned, and the call fails
CompileExit(c) ==
    LET me == call[c]
        log_file == LogFile(me.tex_file)
        scan == ScanLog(fs[log_file])
    IN  /\ me.pc = "compile_exit"
        /\ call' = [call EXCEPT ![c] =
                IF me.exit_code = 0
                THEN [me EXCEPT !.pc = "convert", !.dvi_file = me.result,
                                !.trace = Append(@, "compile_return") ]
                ELSE IF ~Exists(log_file)
                THEN Raise([me EXCEPT !.log_file = log_file], "ToolchainMissing",
                           <<"compile_raise">>)
                ELSE Raise([me EXCEPT !.log_file = log_file, !.emitted = scan.emitted],
                           IF scan.raised THEN "IndexError" ELSE "CompilationError",
                           <<"read_log", "compile_raise">>)]
        /\ UNCHANGED <<tex_dir, texDirExists, fs, calls, returned, probe, answer>>

\* --------------------------------------------------------- convert_to_svg
\* lines 216-217
ConvertResult(dvi_file, extension) ==
    as_posix(Replace(dvi_file, extension, SvgExt))

\* lines 220-230, page = 1
ConvertCommand(dvi_file, extension, result) ==
    Join(<<" ">>, <<
        <<"dvisvgm">>,
        IF extension = Ext("pdf") THEN <<"--pdf">> ELSE <<>>,
        <<"-p ", "1">>,
        Quoted(dvi_file),
        <<"-n">>,
        <<"-v 0">>,
        <<"-o ">> \o Quoted(result),
        <<">">>,
        DevNull >>)

\* lines 216-230: the SVG exists and nothing is run, or the command is built
ConvertEnter(c) ==
    LET me == call[c]
        extension == me.tex_template.output_format
        result == ConvertResult(me.dvi_file, extension)
        dvi_file == as_posix(me.dvi_file)
    IN  /\ me.pc = "convert"
        /\ call' = [call EXCEPT ![c] =
                IF Exists(result)
                THEN [me EXCEPT !.pc = "convert_verify", !.result = result,
                        !.dvi_file = dvi_file,
                        !.trace = @ \o <<"convert", "convert_hit">> ]
                ELSE [me EXCEPT !.pc = "convert_run", !.result = result,
                        !.dvi_file = dvi_file,
                        !.command = ConvertCommand(dvi_file, extension, result),
                        !.trace = @ \o <<"convert", "convert_miss">> ]]
        /\ UNCHANGED <<tex_dir, texDirExists, fs, calls, returned, probe, answer>>

\* line 231, os.system(...): the converter is an external program; it exits
\* with any status, having written the file named by -o or not
ConverterRun(c) ==
    LET me == call[c]
    IN  /\ me.pc = "convert_run"
        /\ \E status \in {0, 1}, makes \in BOOLEAN :
            /\ fs' = (IF makes THEN me.result :> (<<"svg">> \o Content(me.dvi_file)) ELSE <<>>)
                     @@ fs
            /\ call' = [call EXCEPT ![c] = [me EXCEPT
                        !.pc = "convert_verify", !.convert_status = status,
                        !.trace = Append(@, "converter_run") ]]
        /\ UNCHANGED <<tex_dir, texDirExists, calls, returned, probe, answer>>

\* variant: the converter's exit status gates success as well
ConvertVerifyStatus(c) ==
    LET me == call[c]
    IN  /\ me.pc = "convert_verify"
        /\ IF Exists(me.result) /\ me.convert_status = 0
           THEN /\ call' = [call EXCEPT ![c] = [me EXCEPT
                        !.pc = "done", !.retval = me.result,
                        !.trace = Append(@, "convert_return") ]]
                /\ returned' = returned \cup
                        {[ n |-> me.n, expression |-> me.expression,
                           environment |-> me.environment,
                           tex_template |-> me.tex_template_arg, path |-> me.result ]}
           ELSE /\ call' = [call EXCEPT ![c] =
                        Raise(me, "ConversionUnsupported", <<"convert_raise">>)]
                /\ returned' = returned
        /\ UNCHANGED <<tex_dir, texDirExists, fs, calls, probe, answer>>

\* lines 234-242, and line 47: the SVG exists and its path is returned by
\* convert_to_svg and by tex_to_svg_file, or the call fails
ConvertVerify(c) ==
    LET me == call[c]
    IN  /\ me.pc = "convert_verify"
        /\ IF Exists(me.result)
           THEN /\ call' = [call EXCEPT ![c] = [me EXCEPT
                        !.pc = "done", !.retval = me.result,
                        !.trace = Append(@, "convert_return") ]]
                /\ returned' = returned \cup
                        {[ n |-> me.n, expression |-> me.expression,
                           environment |-> me.environment,
                           tex_template |-> me.tex_template_arg, path |-> me.result ]}
           ELSE /\ call' = [call EXCEPT ![c] =
                        Raise(me, "ConversionUnsupported", <<"convert_raise">>)]
                /\ returned' = returned
        /\ UNCHANGED <<tex_dir, texDirExists, fs, calls, probe, answer>>

\* ------------------------------------------------------------ specification
Next ==
    \E c \in Callers :
        \/ \E e \in Expressions, env \in Environments, t \in TemplateArgs :
                Call(c, e, env, t)
        \/ Generate(c)
        \/ GenWrite(c)
        \/ CompileEnter(c)
        \/ CompilerRun(c)
        \/ CompileExit(c)
        \/ ConvertEnter(c)
        \/ ConverterRun(c)
        \/ ConvertVerify(c)

Spec == Init /\ [][Next]_vars

\* the pipeline with callers that retry a failed call
NextRetry ==
    \/ Next
    \/ \E c \in Callers : Recall(c)

SpecRetry == Init /\ [][NextRetry]_vars

\* ------------------------------ generate_tex_file called on its own
\* expressions among which two render to texts of equal fingerprint
CollExpressions == { <<"p">>, <<"q">>, <<"x^2">> }
\* environments: absent, the empty string, a name
GenEnvironments == { None, Some(<<>>), Some(<<"align*">>) }
\* templates: absent (the configured one) or one with another preamble
GenTemplateArgs == { None, Some(Template("B", <<"latex">>, Ext("dvi"))) }

InitColl ==
    /\ tex_dir = <<"/", "w">>
    /\ texDirExists \in BOOLEAN
    /\ fs = <<>>
    /\ call = [c \in Callers |-> Idle]
    /\ calls = 0
    /\ returned = {}
    /\ probe = <<>>
    /\ answer = <<>>

\* line 50: generate_tex_file(expression, environment, tex_template=None)
CallGenerate(c, expression, environment, tex_template) ==
    /\ call[c].pc = "idle"
    /\ Call(c, expression, environment, tex_template)

\* line 84: the caller receives the path of the document
GenerateReturn(c) ==
    /\ call[c].pc = "compile"
    /\ returned' = returned \cup
            { [text |-> call[c].output, path |-> call[c].tex_file] }
    /\ call' = [call EXCEPT ![c] = Idle]
    /\ UNCHANGED <<tex_dir, texDirExists, fs, calls, probe, answer>>

NextColl ==
    \E c \in Callers :
        \/ \E e \in CollExpressions, env \in GenEnvironments,
              t \in GenTemplateArgs :
                CallGenerate(c, e, env, t)
        \/ Generate(c)
        \/ GenWrite(c)
        \/ GenerateReturn(c)

SpecColl == InitColl /\ [][NextColl]_vars

\* ------------------------------------- two callers of tex_to_svg_file
\* the callers run the same code on the same working directory with no lock;
\* each step of a caller is one file-system operation or one external
\* invocation, and steps of the two interleave freely
ConcCallers == {1, 2}

InitConc ==
    /\ tex_dir = <<"/", "w">>
    /\ texDirExists \in BOOLEAN
    /\ fs = <<>>
    /\ call = [c \in ConcCallers |-> Idle]
    /\ calls = 0
    /\ returned = {}
    /\ probe = <<>>
    /\ answer = <<>>

\* a caller starts its call, for the text the other caller's call renders
ConcCall(c, expression, environment) ==
    /\ call[c].pc = "idle"
    /\ \A d \in ConcCallers :
            call[d].pc # "idle" =>
                Render(ConfigTexTemplate, expression, environment)
                    = Render(call[d].tex_template, call[d].expression,
                             call[d].environment)
    /\ Call(c, expression, environment, None)

NextConc ==
    \E c \in ConcCallers :
        \/ \E e \in Expressions, env \in Environments : ConcCall(c, e, env)
        \/ Generate(c)
        \/ GenWrite(c)
        \/ CompileEnter(c)
        \/ CompilerRun(c)
        \/ CompileExit(c)
        \/ ConvertEnter(c)
        \/ ConverterRun(c)
        \/ ConvertVerify(c)

SpecConc == InitConc /\ [][NextConc]_vars

\* ------------------------------------------- the log scan on bounded logs
\* the log of n lines whose lines at the (1-based) positions of DOMAIN marks
\* are the marked lines and whose other lines are plain text
MakeLog(n, marks) ==
    [i \in 1..n |-> IF i \in DOMAIN marks THEN marks[i] ELSE TextLine]

BoundedLogs ==
    UNION { UNION { { MakeLog(n, marks) : marks \in [S -> {ErrLine, LocLine}] } :
                    S \in { T \in SUBSET (1..n) : Cardinality(T) <= MaxMarks } } :
            n \in 0..MaxLogLen }

NoAnswer == [raised |-> FALSE, emitted |-> <<>>, scanned |-> FALSE]

InitScan ==
    /\ tex_dir = <<"/", "w">>
    /\ texDirExists = TRUE
    /\ fs = <<>>
    /\ call = [c \in Callers |-> Idle]
    /\ calls = 0
    /\ returned = {}
    /\ probe \in BoundedLogs
    /\ answer = NoAnswer

\* lines 172-189 applied to the log under test
Scan ==
    /\ ~answer.scanned
    /\ answer' = [raised |-> ScanLog(probe).raised,
                  emitted |-> ScanLog(probe).emitted, scanned |-> TRUE]
    /\ UNCHANGED <<tex_dir, texDirExists, fs, call, calls, returned, probe>>

NextScan == Scan

SpecScan == InitScan /\ [][NextScan]_vars

\* ------------------------------------- command construction on its inputs
Compilers == LatexFamily \cup { <<"xelatex">>, <<"not-a-compiler">> }
Formats == { Ext("dvi"), Ext("xdv"), Ext("pdf"), Ext("svg") }

NoCommand == [ok |-> FALSE, command |-> <<>>, error |-> "none", built |-> FALSE]

InitCmd ==
    /\ tex_dir \in WorkDirs
    /\ texDirExists \in BOOLEAN
    /\ fs = <<>>
    /\ call = [c \in Callers |-> Idle]
    /\ calls = 0
    /\ returned = {}
    /\ probe \in [ tex_compiler : Compilers, output_format : Formats,
                   tex_file : { TexPath(tex_dir, t) : t \in { <<"D">> } } ]
    /\ answer = NoCommand

\* tex_compilation_command applied to the inputs under test
BuildCommand ==
    LET built == tex_compilation_command(
                    probe.tex_compiler, probe.output_format, probe.tex_file, tex_dir)
    IN  /\ ~answer.built
        /\ answer' = [ok |-> built.ok, command |-> built.command,
                      error |-> built.error, built |-> TRUE]
        /\ UNCHANGED <<tex_dir, texDirExists, fs, call, calls, returned, probe>>

NextCmd == BuildCommand

SpecCmd == InitCmd /\ [][NextCmd]_vars

\* ================================================================ claims
IsErr(log, i) == StartsWith(At(log, i), <<"!">>)
IsLoc(log, i) == StartsWith(At(log, i), <<"l.">>)
Lines(log) == 0..(Len(log) - 1)

\* the "l." lines among the ScanRange lines that follow line i
LocAfter(log, i) ==
    { j \in (i + 1)..Min(i + ScanRange, Len(log) - 1) : IsLoc(log, j) }
FirstLoc(log, i) == CHOOSE j \in LocAfter(log, i) : \A k \in LocAfter(log, i) : j <= k

\* the indices of the log lines emitted for the "!" line i, in emission order
WindowOf(emitted, i) ==
    LET IsFor(r) == r.err = i
        mine == SelectSeq(emitted, IsFor)
    IN  [k \in 1..Len(mine) |-> mine[k].index]

FromTo(a, b) == [k \in 1..(b - a + 1) |-> a + k - 1]

\* C7: for every "!" line i of the log that is followed within the next 10
\* lines by a first "l." line j, the lines emitted for i are exactly
\* log[i..j] in order; records are emitted window by window in log order and
\* every record carries the log line at its index.
C7_WindowToMarker ==
    answer.scanned =>
        /\ \A i \in Lines(probe) :
                (IsErr(probe, i) /\ LocAfter(probe, i) # {}) =>
                    WindowOf(answer.emitted, i) = FromTo(i, FirstLoc(probe, i))
        /\ \A k \in 1..Len(answer.emitted) :
                /\ k > 1 => answer.emitted[k - 1].err <= answer.emitted[k].err
                /\ answer.emitted[k].index >= 0 =>
                        answer.emitted[k].line = At(probe, answer.emitted[k].index)

\* C7 witness: a scanned log with two "!" lines that are both followed by
\* an "l." line, for the first of them exactly 10 lines further on.
C7_Witness ==
    /\ answer.scanned
    /\ \E i, j \in Lines(probe) :
            /\ i < j
            /\ IsErr(probe, i) /\ LocAfter(probe, i) = {i + ScanRange}
            /\ IsErr(probe, j) /\ LocAfter(probe, j) # {}
            /\ Len(WindowOf(answer.emitted, i)) = ScanRange + 1
            /\ Len(WindowOf(answer.emitted, j)) > 1

\* C8: for a "!" line with no "l." line among the lines scanned after it, at
\* most 11 lines are emitted for it (itself and at most 10 that follow), and
\* the scan never reads a line index past the end of the log.
C8_WindowWithoutMarker ==
    answer.scanned =>
        /\ ~answer.raised
        /\ \A i \in Lines(probe) :
                (IsErr(probe, i) /\ LocAfter(probe, i) = {}) =>
                    Len(WindowOf(answer.emitted, i)) <= ScanRange + 1

HasSub(s, sub) ==
    \E k \in 0..(Len(s) - Len(sub)) : SubSeq(s, k + 1, k + Len(sub)) = sub

\* C9: tex_compilation_command gives xelatex the -no-pdf flag for .xdv and
\* not for .pdf and raises UnsupportedFormat for any other format; gives the
\* latex family batch mode, halt-on-error, the output format and the output
\* directory for every format; raises UnknownCompiler for any other
\* compiler; and leaves disk and processes alone.
C9_CommandConstruction ==
    answer.built =>
        /\ probe.tex_compiler = <<"xelatex">> =>
            /\ probe.output_format = Ext("xdv") =>
                    answer.ok /\ "-no-pdf" \in Range(answer.command)
            /\ probe.output_format = Ext("pdf") =>
                    answer.ok /\ "-no-pdf" \notin Range(answer.command)
            /\ probe.output_format \notin {Ext("xdv"), Ext("pdf")} =>
                    ~answer.ok /\ answer.error = "UnsupportedFormat"
            /\ answer.ok =>
                    /\ HasSub(answer.command, <<"xelatex", " ">>)
                    /\ "-interaction=batchmode" \in Range(answer.command)
                    /\ "-halt-on-error" \in Range(answer.command)
        /\ probe.tex_compiler \in LatexFamily =>
            /\ answer.ok
            /\ StartsWith(answer.command, probe.tex_compiler \o <<" ">>)
            /\ "-interaction=batchmode" \in Range(answer.command)
            /\ "-halt-on-error" \in Range(answer.command)
            /\ HasSub(answer.command,
                      <<"-output-format=", "\"", probe.output_format[2], "\"">>)
            /\ HasSub(answer.command, <<"-output-directory=">> \o Quoted(tex_dir))
        /\ probe.tex_compiler \notin LatexFamily \cup {<<"xelatex">>} =>
            ~answer.ok /\ answer.error = "UnknownCompiler"
        /\ fs = <<>> /\ call = [c \in Callers |-> Idle]

\* C9 witness: a command was built for xelatex with .xdv and carries -no-pdf.
C9_Witness ==
    /\ answer.built /\ answer.ok
    /\ probe.tex_compiler = <<"xelatex">>
    /\ probe.output_format = Ext("xdv")
    /\ "-no-pdf" \in Range(answer.command)

\* ------------------------------------------------------ pipeline claims
\* path with its final extension replaced by ext
ReplaceExt(path, ext) == SubSeq(path, 1, Len(path) - 2) \o ext

Format(c) == call[c].tex_template.output_format
\* {workDir}/f for the text rendered in the call of c
Base(c) == PathJoin(tex_dir, <<tex_hash(call[c].output)>>)
Happened(c, e) == Count(c, e) > 0
Over(c) == call[c].pc \in {"done", "failed"}

\* the earlier calls that returned a path for the arguments of the call of c
Earlier(c) ==
    { r \in returned :
        /\ r.n < call[c].n
        /\ r.expression = call[c].expression
        /\ r.environment = call[c].environment
        /\ r.tex_template = call[c].tex_template_arg }

\* the call of c has changed nothing and run nothing, and if it is over it
\* returned path
Untouched(c, path) ==
    /\ CompilerRuns(c) = 0
    /\ ConverterRuns(c) = 0
    /\ Writes(c) = 0
    /\ fs = call[c].fsEntry
    /\ call[c].pc # "failed"
    /\ call[c].pc = "done" => call[c].retval = path

\* the compiled output compile_tex expects for the arguments of c's call
ExpectedOutput(c) ==
    LET me == call[c]
    IN  CompileResult(
            TexPath(tex_dir, Render(me.tex_template, me.expression, me.environment)),
            me.tex_template.output_format)

\* C1 as claimed: once a call has returned an SVG path, a later call with the
\* same (expression, environment, template) returns that path, changes no
\* file, writes nothing and runs neither compiler nor converter, whatever
\* the external tools did in the first call.
C1_Idempotent ==
    \A c \in Callers : \A r \in Earlier(c) : Untouched(c, r.path)

\* C1 amended: the same, for a later call that starts while the compiled
\* output compile_tex expects for these arguments is on disk.
C1_IdempotentGivenOutput ==
    \A c \in Callers : \A r \in Earlier(c) :
        ExpectedOutput(c) \in DOMAIN call[c].fsEntry => Untouched(c, r.path)

\* C1 witness: a second call with the arguments of a call that returned has
\* itself returned, the compiled output having been on disk when it started.
C1_Witness ==
    \E c \in Callers :
        /\ call[c].pc = "done"
        /\ Earlier(c) # {}
        /\ ExpectedOutput(c) \in DOMAIN call[c].fsEntry
        /\ Happened(c, "compile_hit") /\ Happened(c, "convert_hit")

\* C2: generate_tex_file returns {workDir}/f.tex, compile_tex returns
\* {workDir}/f{ext} and convert_to_svg returns {workDir}/f.svg, f being the
\* fingerprint of the rendered text, for every working directory.
C2_PathLayout ==
    \A c \in Callers :
        /\ Happened(c, "generate_return") => call[c].tex_file = Base(c) \o TexExt
        /\ Happened(c, "compile_return") => call[c].dvi_file = Base(c) \o Format(c)
        /\ call[c].pc = "done" => call[c].retval = Base(c) \o SvgExt

\* the compile stage, or the convert stage, of c's call has ended
CompileOver(c) == Happened(c, "compile_return") \/ Happened(c, "compile_raise")
ConvertOver(c) == Happened(c, "convert_return") \/ Happened(c, "convert_raise")

\* a stage that found its expected artifact at entry ran no tool and returned
\* the artifact's path
HitSkips(c) ==
    /\ Happened(c, "compile_hit") =>
            /\ CompilerRuns(c) = 0
            /\ Happened(c, "compile_return")
            /\ call[c].dvi_file = CompileResult(call[c].tex_file, Format(c))
    /\ Happened(c, "convert_hit") =>
            /\ ConverterRuns(c) = 0
            /\ Over(c) => call[c].pc = "done" /\ call[c].retval = call[c].result

\* the command of c's compile stage can be built
Buildable(c) ==
    tex_compilation_command(call[c].tex_template.tex_compiler, Format(c),
                            call[c].tex_file, as_posix(tex_dir)).ok

\* C3 as claimed: a stage whose expected artifact exists at entry runs no
\* tool and returns that path; a stage whose expected artifact is absent at
\* entry runs its tool exactly once.
C3_CacheHit ==
    \A c \in Callers :
        /\ HitSkips(c)
        /\ (Happened(c, "compile_miss") /\ CompileOver(c)) => CompilerRuns(c) = 1
        /\ (Happened(c, "convert_miss") /\ ConvertOver(c)) => ConverterRuns(c) = 1

\* C3 amended: as claimed, except that compile_tex with its expected output
\* absent runs the compiler exactly once only if tex_compilation_command
\* builds a command; if that raises, no compiler is run.
C3_CacheHitOrBuilt ==
    \A c \in Callers :
        /\ HitSkips(c)
        /\ (Happened(c, "compile_miss") /\ CompileOver(c)) =>
                CompilerRuns(c) = (IF Buildable(c) THEN 1 ELSE 0)
        /\ (Happened(c, "convert_miss") /\ ConvertOver(c)) => ConverterRuns(c) = 1

\* C3 witness: a call that found its compiled output on disk, ran no
\* compiler, then missed the SVG and ran the converter once.
C3_Witness ==
    \E c \in Callers :
        /\ Over(c)
        /\ Happened(c, "compile_hit") /\ CompilerRuns(c) = 0
        /\ Happened(c, "convert_miss") /\ ConverterRuns(c) = 1

\* the compiler ran in c's call and exited non-zero, and compile_tex has
\* dealt with that
CompilerFailed(c) ==
    /\ CompilerRuns(c) = 1
    /\ call[c].pc # "compile_exit"
    /\ call[c].exit_code # 0

\* the log file: the document path with its extension replaced by .log
DocLog(c) == ReplaceExt(call[c].tex_file, LogExt)

\* C4: when the compiler exits non-zero and the .log file exists, compile_tex
\* fails with CompilationError, whatever the log holds; it returns no path
\* and fails with nothing else.
C4_CompilationError ==
    \A c \in Callers :
        (CompilerFailed(c) /\ Exists(DocLog(c))) =>
            /\ call[c].pc = "failed"
            /\ call[c].error = "CompilationError"
            /\ call[c].log_file = DocLog(c)

\* C5: when the compiler exits non-zero and no .log file exists at the
\* document path with its extension replaced by .log, compile_tex fails with
\* ToolchainMissing, reads no log and emits no diagnostics.
C5_MissingLog ==
    \A c \in Callers :
        (CompilerFailed(c) /\ ~Exists(DocLog(c))) =>
            /\ call[c].pc = "failed"
            /\ call[c].error = "ToolchainMissing"
            /\ ~Happened(c, "read_log")
            /\ call[c].emitted = <<>>

\* C5 witness: the compiler exited non-zero without a log and the call has
\* failed.
C5_Witness ==
    \E c \in Callers :
        /\ CompilerFailed(c) /\ ~Exists(DocLog(c))
        /\ call[c].pc = "failed"

\* C6: convert_to_svg fails with ConversionUnsupported exactly when the
\* expected SVG is absent after the converter was run or skipped; when the
\* SVG is there its path is returned, whatever the converter's exit status.
C6_ConversionVerified ==
    \A c \in Callers :
        ConvertOver(c) =>
            /\ (call[c].pc = "failed" /\ call[c].error = "ConversionUnsupported")
                    <=> ~Exists(call[c].result)
            /\ Exists(call[c].result) =>
                    call[c].pc = "done" /\ call[c].retval = call[c].result

\* C6 witness: the converter reported failure, the SVG is on disk and the
\* call returned its path.
C6_Witness ==
    \E c \in Callers :
        /\ call[c].pc = "done"
        /\ ConverterRuns(c) = 1
        /\ call[c].convert_status # 0
        /\ Exists(call[c].retval)

\* the position of the first event e in trace t (0 if absent)
RECURSIVE PosFrom(_, _, _)
PosFrom(t, e, k) ==
    IF k > Len(t) THEN 0 ELSE IF t[k] = e THEN k ELSE PosFrom(t, e, k + 1)
Pos(c, e) == PosFrom(call[c].trace, e, 1)
Before(c, a, b) == Happened(c, b) => (Happened(c, a) /\ Pos(c, a) < Pos(c, b))
RaiseEvents == {"compile_raise", "convert_raise"}

\* C10: the stages of one call run in the order generate, compile, convert;
\* the compiler runs only after the generator returned and the converter only
\* after compile_tex returned; a failure ends the call with that failure and
\* nothing runs after it; each stage is entered and each tool run at most once.
C10_StageOrder ==
    \A c \in Callers :
        /\ \A e \in {"generate", "compile", "convert", "compiler_run", "converter_run"} :
                Count(c, e) <= 1
        /\ Before(c, "generate_return", "compile")
        /\ Before(c, "compile", "compiler_run")
        /\ Before(c, "compile_return", "convert")
        /\ Before(c, "convert", "converter_run")
        /\ \A k \in 1..Len(call[c].trace) :
                call[c].trace[k] \in RaiseEvents =>
                    /\ k = Len(call[c].trace)
                    /\ call[c].pc = "failed"
        /\ call[c].pc = "failed" <=> call[c].error # "none"
        /\ call[c].pc = "failed" => call[c].retval = <<>>
        /\ Happened(c, "compile_raise") => ~Happened(c, "convert")

\* C10 witness: the compiler ran and failed, the call has failed with the
\* compiler's error and the converter was never run.
C10_Witness ==
    \E c \in Callers :
        /\ call[c].pc = "failed"
        /\ call[c].error = "CompilationError"
        /\ CompilerRuns(c) = 1
        /\ ConverterRuns(c) = 0

\* the path generate_tex_file targets in c's call
Target(c) ==
    TexPath(tex_dir,
            Render(call[c].tex_template, call[c].expression, call[c].environment))

\* C11: generate_tex_file writes the rendered text to the target path and
\* emits one informational log entry exactly when the target does not exist
\* at entry; when it exists the file is left as it is and nothing is logged;
\* either way the target path is returned and the working directory exists.
C11_WriteOnce ==
    \A c \in Callers :
        Happened(c, "generate_return") =>
            /\ call[c].tex_file = Target(c)
            /\ texDirExists
            /\ Exists(Target(c))
            /\ Target(c) \notin DOMAIN call[c].fsEntry =>
                    /\ Count(c, "open") = 1 /\ Count(c, "write") = 1
                    /\ Len(call[c].infos) = 1
                    /\ fs[Target(c)] = call[c].output
            /\ Target(c) \in DOMAIN call[c].fsEntry =>
                    /\ Writes(c) = 0
                    /\ call[c].infos = <<>>
                    /\ fs[Target(c)] = call[c].fsEntry[Target(c)]

\* C11 witness: a second call found its document on disk and generate_tex_file
\* returned without writing or logging.
C11_Witness ==
    \E c \in Callers :
        /\ Happened(c, "generate_return")
        /\ call[c].n = 2
        /\ Target(c) \in DOMAIN call[c].fsEntry
        /\ Writes(c) = 0 /\ call[c].infos = <<>>

\* c's call repeats its previous call, which failed with CompilationError
Retry(c) ==
    /\ call[c].prev.pc = "failed"
    /\ call[c].prev.error = "CompilationError"
    /\ call[c].prev.expression = call[c].expression
    /\ call[c].prev.environment = call[c].environment
    /\ call[c].prev.tex_template_arg = call[c].tex_template_arg

\* the compiler, if it has run in c's call, did what it did in the previous
\* call
ToolsAsBefore(c) ==
    call[c].tool.ran =>
        /\ call[c].tool = call[c].prev.tool
        /\ call[c].exit_code = call[c].prev.exit_code

\* C12: a retry of a call that failed with CompilationError, with the tools
\* behaving as before, fails with CompilationError again: it returns no path
\* and the converter is never given the output left by the failed compiler.
C12_RetryFailsAgain ==
    \A c \in Callers :
        (Retry(c) /\ ToolsAsBefore(c)) =>
            /\ ~Happened(c, "compile_return")
            /\ ConverterRuns(c) = 0
            /\ call[c].pc # "done"
            /\ call[c].pc = "failed" => call[c].error = "CompilationError"

\* C13: requests whose rendered texts differ never obtain the same document
\* path, and the document at the path a generate_tex_file call returned
\* holds exactly the text rendered for that call.
C13_NoCollision ==
    /\ \A r1, r2 \in returned : r1.text # r2.text => r1.path # r2.path
    /\ \A r \in returned : Exists(r.path) /\ fs[r.path] = r.text

\* C14: with two callers running tex_to_svg_file concurrently for the same
\* rendered text, once both have generated the document it holds exactly the
\* rendered text, and the compiler is never invoked on a document whose
\* content is not the complete rendered text. (That each caller gets the
\* result it would get alone is the third part of the claim; it compares
\* runs and is not part of this formula.)
C14_BenignRace ==
    /\ (\A c \in ConcCallers : Happened(c, "generate_return")) =>
            \A c \in ConcCallers :
                Exists(call[c].tex_file) /\ fs[call[c].tex_file] = call[c].output
    /\ \A c \in ConcCallers :
            call[c].tool.ran => call[c].compiled_from = call[c].output

\* the path compile_tex expects the compiled output of c's call at
ExpectedDvi(c) ==
    CompileResult(TexPath(tex_dir, call[c].output),
                  call[c].tex_template.output_format)

\* the compiler ran in c's call, exited with status zero, and compile_tex has
\* acted on that
ZeroExit(c) ==
    /\ Happened(c, "compiler_run")
    /\ call[c].exit_code = 0
    /\ call[c].pc # "compile_exit"

\* C15: when the compiler is run and exits with status zero, compile_tex
\* raises nothing and returns the expected output path whether or not a file
\* exists there, and tex_to_svg_file passes that path to convert_to_svg,
\* whose converter command, when the SVG is not on disk already, names it.
C15_TrustedExitCode ==
    \A c \in Callers :
        ZeroExit(c) =>
            /\ Happened(c, "compile_return")
            /\ ~Happened(c, "compile_raise")
            /\ call[c].error \notin {"CompilationError", "ToolchainMissing",
                                     "IndexError"}
            /\ call[c].dvi_file = ExpectedDvi(c)
            /\ call[c].pc # "convert" =>
                    /\ Happened(c, "convert")
                    /\ call[c].result = ConvertResult(ExpectedDvi(c),
                                            call[c].tex_template.output_format)
            /\ Happened(c, "convert_miss") =>
                    /\ call[c].command = ConvertCommand(ExpectedDvi(c),
                            call[c].tex_template.output_format, call[c].result)
                    /\ call[c].pc # "convert_run" => ConverterRuns(c) = 1

\* C15 witness: the compiler exited with status zero without writing its
\* output, compile_tex returned the expected path, where no file is, and the
\* converter has been run on it.
C15_Witness ==
    \E c \in Callers :
        /\ ZeroExit(c)
        /\ ~call[c].tool.makes
        /\ ~Exists(ExpectedDvi(c))
        /\ Happened(c, "compile_return")
        /\ call[c].dvi_file = ExpectedDvi(c)
        /\ ConverterRuns(c) = 1

\* C16: when the expected compiled output exists already, compile_tex returns
\* its path for every compiler name and output format, without building a
\* command, raising UnknownCompiler or UnsupportedFormat, or running a
\* compiler; the file is the one an earlier call left, whatever its compiler.
C16_HitBeforeValidation ==
    \A c \in Callers :
        Happened(c, "compile_hit") =>
            /\ Happened(c, "compile_return")
            /\ ~Happened(c, "compile_raise")
            /\ call[c].error \notin {"UnknownCompiler", "UnsupportedFormat"}
            /\ CompilerRuns(c) = 0
            /\ call[c].dvi_file = ExpectedDvi(c)
            /\ ExpectedDvi(c) \in DOMAIN call[c].fsEntry
            /\ Exists(ExpectedDvi(c))
            /\ fs[ExpectedDvi(c)] = call[c].fsEntry[ExpectedDvi(c)]

\* C16 witness: a call with an unrecognised compiler name found the output
\* that the first call, made with the latex template, had compiled, and
\* returned an SVG path.
C16_Witness ==
    \E c \in Callers :
        /\ call[c].tex_template.tex_compiler = <<"not-a-compiler">>
        /\ Happened(c, "compile_hit")
        /\ call[c].pc = "done"
        /\ \E r \in returned :
                /\ r.n = 1 /\ call[c].n = 2
                /\ r.tex_template # call[c].tex_template_arg

\* generate_tex_file has rendered the document of c's call
Rendered(c) == Happened(c, "generate")

\* the texts the expression+environment function of c's template gives for
\* c's expression
InEnvTexts(c) ==
    { get_texcode_for_expression_in_env(call[c].tex_template,
            call[c].expression, env.value) : env \in GenEnvironments \ {None} }

\* C17: generate_tex_file renders with the template's expression+environment
\* function if and only if an environment is provided, the empty string
\* included, and with the expression-only function otherwise; the file name
\* of the document is the fingerprint of the text so rendered.
C17_RenderSelection ==
    \A c \in Callers :
        Rendered(c) =>
            /\ call[c].environment # None =>
                    call[c].output = get_texcode_for_expression_in_env(
                        call[c].tex_template, call[c].expression,
                        call[c].environment.value)
            /\ call[c].environment = None =>
                    call[c].output = get_texcode_for_expression(
                        call[c].tex_template, call[c].expression)
            /\ call[c].output \in InEnvTexts(c) <=> call[c].environment # None
            /\ call[c].result =
                    PathJoin(tex_dir, <<tex_hash(call[c].output)>>) \o TexExt

\* C17 witness: a call with the empty string as environment rendered with
\* the expression+environment function, whose text is not the
\* expression-only text.
C17_Witness ==
    \E c \in Callers :
        /\ Rendered(c)
        /\ call[c].environment = Some(<<>>)
        /\ call[c].output = get_texcode_for_expression_in_env(
                call[c].tex_template, call[c].expression, <<>>)
        /\ call[c].output # get_texcode_for_expression(
                call[c].tex_template, call[c].expression)
        /\ Stem(call[c].result) = tex_hash(call[c].output)

====
